---------------------------- MODULE Spec2Model ----------------------------
(***************************************************************************)
(* A model of StyleAnimation.js (pycka/styleanimation.js).                 *)
(*                                                                         *)
(* src/StyleAnimation.js holds two revisions of the library one after the  *)
(* other.  Both declare function StyleAnimation and assign the same        *)
(* properties of it, so once the script has loaded the definitions of the  *)
(* second revision (lines 266-588) are the ones in force: they are the     *)
(* ones modelled here.                                                     *)
(*                                                                         *)
(* Conventions.                                                            *)
(*  - A JavaScript string is the record [chars |-> s] of the sequence s of *)
(*    its characters: "100px" is Str(<<"1","0","0","p","x">>).             *)
(*  - null / undefined / false are the records Null, Undefined, False.     *)
(*  - A JavaScript number is a record [w, n, d] that stands for the exact  *)
(*    rational (w * 2^32 + n) / d, d > 0, in lowest terms; NaN, +Infinity  *)
(*    and -Infinity are the records NaN, PosInf, NegInf.  The w component  *)
(*    carries the wrap-around of the >>> 0 coercion (ToUint32), whose      *)
(*    results do not fit the integers TLC computes with.  A value the      *)
(*    logarithmic easing produces is kept as the term it is computed from. *)
(*    Rounding of doubles is not modelled.                                 *)
(*  - The string  number + unit  that accessor.set writes is kept as the   *)
(*    record [value, unit] of the number and the characters appended.      *)
(***************************************************************************)
EXTENDS Integers, Sequences, FiniteSets, TLC

(***************************************************************************)
(* Program constants and the bounds of the model                           *)
(***************************************************************************)
\* StyleAnimation.defaultDuration
defaultDuration == 500
\* the delay of the setTimeout fallback of requestAnimationFrame
FrameDelay == 16

\* utime() reads the clock in whole milliseconds, and so does the host when
\* it times a timeout: a timeout of d ms may run when utime() shows that
\* d - TimerSlack ms have passed since it was requested
TimerSlack == 1
\* the clock runs from 0 to MaxTime milliseconds
MaxTime == 48
\* start() is called at most MaxStarts times on an animation
MaxStarts == 2
\* at one reading of the clock at most MaxBurst frames run before a frame
\* runs whose request was made at that reading
MaxBurst == 1
\* the clock advances by one of these amounts
TickSteps == {16}

\* the step of the clock where repaints are told from timeouts
RepaintSteps == {8}

(***************************************************************************)
(* JavaScript values                                                       *)
(***************************************************************************)
Null == [null |-> TRUE]
Undefined == [undefined |-> TRUE]
False == [false |-> TRUE]
True == [true |-> TRUE]
Str(s) == [chars |-> s]

Abs(x) == IF x < 0 THEN -x ELSE x

RECURSIVE Gcd(_, _)
Gcd(a, b) == IF b = 0 THEN Abs(a) ELSE Gcd(b, a % b)

NaN == [nan |-> TRUE]
PosInf == [inf |-> 1]
NegInf == [inf |-> -1]

IsRat(x) == DOMAIN x = {"w", "n", "d"}

\* the number (w * 2^32 + n) / d in lowest terms, d > 0
RatOver(w, n, d, g) == [w |-> w \div g, n |-> n \div g, d |-> d \div g]
Rat(w, n, d) ==
    IF d < 0 THEN RatOver(-w, -n, -d, Gcd(Gcd(Abs(w), Abs(n)), Abs(d)))
    ELSE RatOver(w, n, d, Gcd(Gcd(Abs(w), Abs(n)), Abs(d)))

NumInt(i) == Rat(0, i, 1)

\* the sign of a rational: w dominates n, which stays far below 2^32
RatSign(x) ==
    IF x.w # 0 THEN (IF x.w > 0 THEN 1 ELSE -1)
    ELSE IF x.n # 0 THEN (IF x.n > 0 THEN 1 ELSE -1)
    ELSE 0

RatAdd(x, y) == Rat(x.w * y.d + y.w * x.d, x.n * y.d + y.n * x.d, x.d * y.d)
RatSub(x, y) == Rat(x.w * y.d - y.w * x.d, x.n * y.d - y.n * x.d, x.d * y.d)
\* x * (p / q) for integers p, q, q # 0
RatScale(x, p, q) == Rat(x.w * p, x.n * p, x.d * q)
RatLess(x, y) == RatSign(RatSub(x, y)) < 0
\* x / y for a y that is a plain rational (y.w = 0) other than 0
RatDiv(x, y) == Rat(x.w * y.d, x.n * y.d, x.d * y.n)

\* obj[name] of a JavaScript object: undefined when it has no such property
Prop(obj, name) == IF name \in DOMAIN obj THEN obj[name] ELSE Undefined

\* ToBoolean
Truthy(v) == v \notin {Undefined, Null, False, NaN, [w |-> 0, n |-> 0, d |-> 1], Str(<<>>)}

\* a || b
Or(a, b) == IF Truthy(a) THEN a ELSE b

(***************************************************************************)
(* Arithmetic of the numbers the animation computes with                   *)
(***************************************************************************)
\* the term  log(x * 100) / log(100)  for a rational x > 0 it is not
\* evaluated for
LogTerm(x) == [log |-> x]
IsLogTerm(x) == DOMAIN x = {"log"}

\* a - b, both rationals (the values numeric.get returns)
NumSub(a, b) == IF IsRat(a) /\ IsRat(b) THEN RatSub(a, b) ELSE NaN

(***************************************************************************)
(* ToNumber: the conversion the operators * and >>> apply to an operand    *)
(***************************************************************************)
Digits == {"0", "1", "2", "3", "4", "5", "6", "7", "8", "9"}
\* the characters of the class [.0-9+-]
NumChars == Digits \cup {".", "+", "-"}

DigitVal(c) ==
    CASE c = "0" -> 0 [] c = "1" -> 1 [] c = "2" -> 2 [] c = "3" -> 3
      [] c = "4" -> 4 [] c = "5" -> 5 [] c = "6" -> 6 [] c = "7" -> 7
      [] c = "8" -> 8 [] c = "9" -> 9

\* the value of a sequence of decimal digits
RECURSIVE DigitsValue(_)
DigitsValue(s) ==
    IF s = <<>> THEN 0
    ELSE 10 * DigitsValue(SubSeq(s, 1, Len(s) - 1)) + DigitVal(s[Len(s)])

AllDigits(s) == \A i \in 1..Len(s) : s[i] \in Digits

\* the index of the first "." of s, or Len(s) + 1
DotIdx(s) ==
    IF \E i \in 1..Len(s) : s[i] = "."
    THEN CHOOSE i \in 1..Len(s) : s[i] = "." /\ \A j \in 1..(i - 1) : s[j] # "."
    ELSE Len(s) + 1

RECURSIVE Pow10(_)
Pow10(n) == IF n = 0 THEN 1 ELSE 10 * Pow10(n - 1)

IsString(v) == DOMAIN v = {"chars"}

\* white space and line terminators a numeric string may start and end
\* with: TAB, LF, FF, CR, SP, and VT, NBSP, ZWNBSP and the other space
\* separators and line terminators of Unicode.  A character of the model is
\* a string of one character; a character no string of the module can hold
\* is the string that names its code point.
WhiteSpace ==
    {" ", "\t", "\n", "\f", "\r", "", " ", "﻿", " "}
    \cup {"U+000B", "U+00A0", "U+FEFF", "U+1680",
          "U+2000", "U+2001", "U+2002", "U+2003", "U+2004", "U+2005",
          "U+2006", "U+2007", "U+2008", "U+2009", "U+200A",
          "U+2028", "U+2029", "U+202F", "U+205F", "U+3000"}

FirstInk(s) ==
    CHOOSE i \in 1..Len(s) :
        s[i] \notin WhiteSpace /\ \A j \in 1..(i - 1) : s[j] \in WhiteSpace

LastInk(s) ==
    CHOOSE i \in 1..Len(s) :
        s[i] \notin WhiteSpace /\ \A j \in (i + 1)..Len(s) : s[j] \in WhiteSpace

\* s without its leading and trailing white space
TrimString(s) ==
    IF \A i \in 1..Len(s) : s[i] \in WhiteSpace THEN <<>>
    ELSE SubSeq(s, FirstInk(s), LastInk(s))

\* the digits of the radix a prefix 0x, 0o or 0b announces
RadixOf(c) ==
    CASE c \in {"x", "X"} -> 16 [] c \in {"o", "O"} -> 8 [] c \in {"b", "B"} -> 2
      [] OTHER -> 0

RadixDigitVal(c) ==
    CASE c \in Digits -> DigitVal(c)
      [] c \in {"a", "A"} -> 10 [] c \in {"b", "B"} -> 11
      [] c \in {"c", "C"} -> 12 [] c \in {"d", "D"} -> 13
      [] c \in {"e", "E"} -> 14 [] c \in {"f", "F"} -> 15
      [] OTHER -> 16

RECURSIVE RadixValue(_, _)
RadixValue(s, r) ==
    IF s = <<>> THEN 0
    ELSE r * RadixValue(SubSeq(s, 1, Len(s) - 1), r) + RadixDigitVal(s[Len(s)])

\* 0x..., 0o..., 0b...: a number when digits of the radix follow the prefix
NonDecimalLiteral(ds, r) ==
    IF r > 0 /\ Len(ds) > 0 /\ \A i \in 1..Len(ds) : RadixDigitVal(ds[i]) < r
    THEN NumInt(RadixValue(ds, r))
    ELSE NaN

\* digits+ ( . digits* )? | . digits+ : ip and fp are what stands before
\* and after the first "."
Mantissa(ip, fp, hasDot) ==
    IF /\ AllDigits(ip) /\ AllDigits(fp)
       /\ Len(ip) + Len(fp) > 0
       /\ (hasDot \/ Len(ip) > 0)
    THEN Rat(0, DigitsValue(ip \o fp), Pow10(Len(fp)))
    ELSE NaN

MantissaOf(body, dot) ==
    Mantissa(SubSeq(body, 1, dot - 1), SubSeq(body, dot + 1, Len(body)),
             dot <= Len(body))

\* the exponent part after e or E: [+-]? digits+
ExponentDigits(neg, ds) ==
    IF Len(ds) > 0 /\ AllDigits(ds)
    THEN [exp |-> (IF neg THEN -1 ELSE 1) * DigitsValue(ds)]
    ELSE NaN

ExponentOf(x) ==
    IF Len(x) > 0 /\ x[1] \in {"+", "-"}
    THEN ExponentDigits(x[1] = "-", SubSeq(x, 2, Len(x)))
    ELSE ExponentDigits(FALSE, x)

Scaled(m, e) ==
    IF m = NaN \/ e = NaN THEN NaN
    ELSE IF e.exp >= 0 THEN RatScale(m, Pow10(e.exp), 1)
    ELSE RatScale(m, 1, Pow10(-e.exp))

\* the index of the first e or E of s, or Len(s) + 1
ExpIdx(s) ==
    IF \E i \in 1..Len(s) : s[i] \in {"e", "E"}
    THEN CHOOSE i \in 1..Len(s) :
            s[i] \in {"e", "E"} /\ \A j \in 1..(i - 1) : s[j] \notin {"e", "E"}
    ELSE Len(s) + 1

DecimalWithExponent(m, x) == Scaled(MantissaOf(m, DotIdx(m)), ExponentOf(x))

\* an unsigned decimal literal, its exponent marker at index k if it has one
UnsignedDecimal(body, k) ==
    IF k > Len(body) THEN MantissaOf(body, DotIdx(body))
    ELSE DecimalWithExponent(SubSeq(body, 1, k - 1), SubSeq(body, k + 1, Len(body)))

UnsignedLiteral(body) ==
    IF body = <<"I", "n", "f", "i", "n", "i", "t", "y">> THEN PosInf
    ELSE UnsignedDecimal(body, ExpIdx(body))

Negated(v) ==
    IF IsRat(v) THEN RatScale(v, -1, 1)
    ELSE IF v = PosInf THEN NegInf
    ELSE v

\* ToNumber of a trimmed string: the empty string is 0, what is no numeric
\* literal NaN; the literals of the model stay far below 2^31
TrimmedToNumber(t) ==
    IF t = <<>> THEN NumInt(0)
    ELSE IF Len(t) >= 2 /\ t[1] = "0" /\ RadixOf(t[2]) > 0
    THEN NonDecimalLiteral(SubSeq(t, 3, Len(t)), RadixOf(t[2]))
    ELSE IF t[1] = "-" THEN Negated(UnsignedLiteral(SubSeq(t, 2, Len(t))))
    ELSE IF t[1] = "+" THEN UnsignedLiteral(SubSeq(t, 2, Len(t)))
    ELSE UnsignedLiteral(t)

StringToNumber(s) == TrimmedToNumber(TrimString(s))

IsNumber(v) == IsRat(v) \/ v \in {NaN, PosInf, NegInf} \/ IsLogTerm(v)

IsArray(v) == DOMAIN v = {"kind", "items"} /\ v.kind = "array"

\* ToNumber of the string an array converts to, the join of its items by
\* ",": 0 for the empty string of an array with no item, or with the one
\* item null, undefined or an empty array; the number of the one item
\* when that is a number or a string that writes one; else NaN, no number
\* being written with a ",", as true or as [object ...]
RECURSIVE ArrayToNumber(_)
ArrayToNumber(items) ==
    IF Len(items) = 0 THEN NumInt(0)
    ELSE IF Len(items) > 1 THEN NaN
    ELSE IF items[1] = Null \/ items[1] = Undefined THEN NumInt(0)
    ELSE IF IsNumber(items[1]) THEN items[1]
    ELSE IF IsString(items[1]) THEN StringToNumber(items[1].chars)
    ELSE IF IsArray(items[1]) THEN ArrayToNumber(items[1].items)
    ELSE NaN

\* ToNumber: null and false are 0, true is 1, undefined NaN, a string the
\* number it writes, an array the number its join writes, another object
\* or a function (whose valueOf and toString give no number) NaN; a
\* number, and the term standing for one, is itself
ToNumber(v) ==
    IF IsNumber(v) THEN v
    ELSE IF v = Null \/ v = False THEN NumInt(0)
    ELSE IF v = True THEN NumInt(1)
    ELSE IF IsString(v) THEN StringToNumber(v.chars)
    ELSE IF IsArray(v) THEN ArrayToNumber(v.items)
    ELSE NaN

\* a * g for a rational a and a number g
Product(a, g) ==
    IF IsRat(g) THEN RatScale(a, g.n, g.d)
    ELSE IF g = NegInf \/ g = PosInf
         THEN (IF RatSign(a) = 0 THEN NaN
               ELSE IF RatSign(a) * g.inf > 0 THEN PosInf ELSE NegInf)
    ELSE IF IsLogTerm(g)
         THEN (IF RatSign(a) = 0 THEN NumInt(0) ELSE [mul |-> a, log |-> g.log])
    ELSE NaN

\* a * g for a rational a and g the value passed as progress, which *
\* converts with ToNumber
NumMul(a, g) == IF ~IsRat(a) THEN NaN ELSE Product(a, ToNumber(g))

\* a + b for a rational a and b a product NumMul returned
NumAdd(a, b) ==
    IF ~IsRat(a) THEN NaN
    ELSE IF IsRat(b) THEN RatAdd(a, b)
    ELSE IF b = NegInf \/ b = PosInf THEN b
    ELSE IF DOMAIN b = {"mul", "log"} THEN [sum |-> a, mul |-> b.mul, log |-> b.log]
    ELSE NaN

(***************************************************************************)
(* StyleAnimation.dynamics                                                 *)
(***************************************************************************)
\* StyleAnimation.dynamics.linear
linear(x) == x

\* StyleAnimation.dynamics.logarithmic: Math.log(x*100) / Math.log(100)
logarithmic(x) ==
    IF x = PosInf THEN PosInf
    ELSE IF ~IsRat(x) THEN NaN
    ELSE IF RatSign(x) < 0 THEN NaN
    ELSE IF RatSign(x) = 0 THEN NegInf
    ELSE IF x = NumInt(1) THEN NumInt(1)
    ELSE IF x = Rat(0, 1, 100) THEN NumInt(0)
    ELSE LogTerm(x)

(***************************************************************************)
(* StyleAnimation.accessors.numeric                                        *)
(***************************************************************************)
\* ToNumber of a string of characters of [.0-9+-], truncated towards zero
\* (the integer ToUint32 starts from): NaN when the string is no numeric
\* literal, else [neg, int] for the sign and the integral part.  A literal
\* is [+-]? ( digits+ ( . digits* )? | . digits+ ): ip and fp are what
\* stands before and after the first ".".
LiteralParts(neg, ip, fp, hasDot) ==
    IF /\ AllDigits(ip) /\ AllDigits(fp)
       /\ Len(ip) + Len(fp) > 0
       /\ (hasDot \/ Len(ip) > 0)
    THEN [neg |-> neg, int |-> DigitsValue(ip)]
    ELSE NaN

UnsignedParts(neg, body, dot) ==
    LiteralParts(neg, SubSeq(body, 1, dot - 1), SubSeq(body, dot + 1, Len(body)),
                 dot <= Len(body))

ToIntegerParts(s) ==
    IF Len(s) > 0 /\ s[1] \in {"+", "-"}
    THEN UnsignedParts(s[1] = "-", SubSeq(s, 2, Len(s)), DotIdx(SubSeq(s, 2, Len(s))))
    ELSE UnsignedParts(FALSE, s, DotIdx(s))

\* ToUint32 of the truncated number p: NaN gives 0, a negative integer -k
\* gives 2^32 - k; the integral part is below 2^32 for every string of the
\* model
Uint32Of(p) ==
    IF p = NaN THEN NumInt(0)
    ELSE IF p.neg /\ p.int > 0 THEN Rat(1, -p.int, 1)
    ELSE NumInt(p.int)

\* s >>> 0 for a string s of characters of [.0-9+-]
ToUint32(s) == Uint32Of(ToIntegerParts(s))

\* the index at which /([.0-9+-]+)([^.0-9+-]+)?/ matches s: that of its
\* first character of [.0-9+-], 0 when it has none
MatchStart(s) ==
    IF \E i \in 1..Len(s) : s[i] \in NumChars
    THEN CHOOSE i \in 1..Len(s) :
            s[i] \in NumChars /\ \A j \in 1..(i - 1) : s[j] \notin NumChars
    ELSE 0

\* the end of the longest run from index i of characters that are (inNum) or
\* are not (~inNum) of [.0-9+-]; i - 1 when the run is empty
RunEnd(s, i, inNum) ==
    IF \E k \in i..Len(s) : (s[k] \in NumChars) # inNum
    THEN (CHOOSE k \in i..Len(s) :
            /\ (s[k] \in NumChars) # inNum
            /\ \A m \in i..(k - 1) : (s[m] \in NumChars) = inNum) - 1
    ELSE Len(s)

\* the two groups of the match that starts at i and whose first group ends
\* at e1; the second group is undefined when it matched nothing
MatchGroups(s, i, e1, e2) ==
    [m1 |-> SubSeq(s, i, e1),
     m2 |-> IF e2 > e1 THEN Str(SubSeq(s, e1 + 1, e2)) ELSE Undefined]

MatchFrom(s, i, e1) == MatchGroups(s, i, e1, RunEnd(s, e1 + 1, FALSE))

\* re.exec(raw): null when nothing matches
RegExec(s, i) == IF i = 0 THEN Null ELSE MatchFrom(s, i, RunEnd(s, i, TRUE))

\* lines 504-510 of accessors.numeric.get
PropOfMatch(matches) ==
    IF matches = Null THEN Null
    ELSE [value |-> ToUint32(matches.m1), unit |-> Or(matches.m2, Null)]

\* accessors.numeric.get(raw) for a string raw
numeric_get(raw) == PropOfMatch(RegExec(raw.chars, MatchStart(raw.chars)))

TypeError == [error |-> "TypeError"]

\* an update that scales the target instead of the distance
numeric_update_scaled(start, target, progress) ==
    IF start = Null \/ target = Null \/ progress = TypeError THEN TypeError
    ELSE [value |-> NumMul(target.value, progress),
          unit |-> start.unit]

\* accessors.numeric.update(start, target, progress); reading .value of a
\* null start or target throws.  A TypeError for progress stands for the
\* evaluation of that argument having thrown.
numeric_update(start, target, progress) ==
    IF start = Null \/ target = Null \/ progress = TypeError THEN TypeError
    ELSE [value |-> NumAdd(start.value,
                           NumMul(NumSub(target.value, start.value), progress)),
          unit |-> start.unit]

\* numeric.set appending the unit of the value it writes
numeric_set_ownUnit(start, current) ==
    IF start = Null \/ current = Null \/ current = TypeError THEN TypeError
    ELSE [value |-> current.value,
          unit |-> Or(current.unit, Str(<<>>))]

\* the string accessors.numeric.set(node, name, start, current) assigns to
\* node.style[name]: current.value + (start.unit || ''); reading .value or
\* .unit of null throws.  A TypeError for current stands for the evaluation
\* that was to give it having thrown.
numeric_set(start, current) ==
    IF start = Null \/ current = Null \/ current = TypeError THEN TypeError
    ELSE [value |-> current.value,
          unit |-> Or(start.unit, Str(<<>>))]

(***************************************************************************)
(* The host: elements, collections, computed style                         *)
(***************************************************************************)
\* a DOM element, a native array of elements, a NodeList of elements
Element(id) == [kind |-> "element", id |-> id]
Array(items) == [kind |-> "array", items |-> items]
NodeList(items) == [kind |-> "nodelist", items |-> items]

\* x.length: undefined on an element
Length(x) == IF x.kind = "element" THEN Undefined ELSE NumInt(Len(x.items))
\* x.item: the method of a NodeList, undefined on an array and on an element
Item(x) == IF x.kind = "nodelist" THEN [fn |-> "NodeList.prototype.item"] ELSE Undefined

\* StyleAnimation.getComputedStyle(element, name): the host's
\* window.getComputedStyle throws a TypeError on what is not an element,
\* and so does reading currentStyle[name] of it
getComputedStyle(element, name, st) ==
    IF element.kind = "element" THEN st[element.id][name] ELSE TypeError

(***************************************************************************)
(* StyleAnimation.parsePropertyMap and the Animation constructor           *)
(***************************************************************************)
\* StyleAnimation.properties is empty: every property gets the numeric
\* accessor.  properties is the caller's map, a sequence of [name, value]
\* in its enumeration order.  The result is [threw, props]: whether the
\* style query threw, and the array returned when it did not.

\* lines 459-467: props.push(prop), raw being the computed style read
pushProp(acc, property, raw) ==
    IF raw = TypeError THEN [threw |-> TRUE, props |-> <<>>]
    ELSE [threw |-> FALSE,
          props |-> Append(acc.props, [name |-> property.name,
                                       accessor |-> "numeric",
                                       start |-> numeric_get(raw),
                                       target |-> numeric_get(property.value)])]

\* the loop of parsePropertyMap from the k-th property on
RECURSIVE parseFrom(_, _, _, _, _)
parseFrom(node, properties, st, k, acc) ==
    IF k > Len(properties) \/ acc.threw THEN acc
    ELSE parseFrom(node, properties, st, k + 1,
                   pushProp(acc, properties[k],
                            getComputedStyle(node, properties[k].name, st)))

parsePropertyMap(node, properties, st) ==
    parseFrom(node, properties, st, 1, [threw |-> FALSE, props |-> <<>>])

\* (!Object.prototype.toString.call(elements)) === '[object Array]':
\* the negation applies to the string, and a boolean is never === a string
ArrayTagTest(elements) == FALSE

\* lines 324-332: wrap into an array if not an array or NodeList
normalizeElements(elements) ==
    IF ArrayTagTest(elements) \/ ~(Truthy(Length(elements)) /\ Truthy(Item(elements)))
    THEN <<elements>>
    ELSE elements.items

\* the names every object inherits a function under from Object.prototype
InheritedFunctions ==
    {"constructor", "toString", "toLocaleString", "valueOf", "hasOwnProperty",
     "isPrototypeOf", "propertyIsEnumerable",
     "__defineGetter__", "__defineSetter__", "__lookupGetter__",
     "__lookupSetter__"}

\* StyleAnimation.dynamics[name]: the two registered functions, and, the
\* registry being a plain object, what it inherits from Object.prototype
dynamics(name) ==
    CASE name = "linear" -> [fn |-> "StyleAnimation.dynamics.linear"]
      [] name = "logarithmic" -> [fn |-> "StyleAnimation.dynamics.logarithmic"]
      [] name = "constructor" -> [fn |-> "Object"]
      [] name \in InheritedFunctions \ {"constructor"} ->
            [fn |-> "Object.prototype." \o name]
      [] name = "__proto__" -> [object |-> "Object.prototype"]
      [] OTHER -> Undefined

IsFunction(v) == DOMAIN v = {"fn"}

\* lines 337-338: (easing && (isFunction(easing) || dynamics[easing]))
\*                || dynamics.linear
resolveEasing(easing) ==
    Or(IF Truthy(easing)
       THEN (IF IsFunction(easing) THEN True ELSE dynamics(Prop(easing, "string")))
       ELSE easing,
       dynamics("linear"))

\* lines 340-347
resolveAfterEach(callback) ==
    IF Truthy(callback) THEN Or(Prop(callback, "afterEach"), False) ELSE False

resolveAfterAll(callback) ==
    IF Truthy(callback) THEN Or(Prop(callback, "afterAll"), callback) ELSE False

\* lines 351-357: this.elements.push(element), parsed being what
\* parsePropertyMap gave for the node
pushElement(acc, node, parsed) ==
    IF parsed.threw THEN [threw |-> TRUE, elements |-> <<>>]
    ELSE [threw |-> FALSE,
          elements |-> Append(acc.elements, [node |-> node, properties |-> parsed.props])]

\* lines 349-358 from the i-th node on: one binding per element of the
\* normalised collection; [threw, elements]
RECURSIVE buildFrom(_, _, _, _, _)
buildFrom(nodes, properties, st, i, acc) ==
    IF i > Len(nodes) \/ acc.threw THEN acc
    ELSE buildFrom(nodes, properties, st, i + 1,
                   pushElement(acc, nodes[i], parsePropertyMap(nodes[i], properties, st)))

buildElements(nodes, properties, st) ==
    buildFrom(nodes, properties, st, 1, [threw |-> FALSE, elements |-> <<>>])

\* the object the constructor returns for the normalised collection nodes
\* and the bindings built for it, or TypeError when building them threw.
\* cancel and startTime are not assigned before start(): cancel reads as
\* false.  propertyCount is assigned in the loop; with no element it stays
\* undefined, which bounds a loop as 0 does.
AnimationOf(nodes, built, duration, callback, easing) ==
    IF built.threw THEN TypeError
    ELSE [elements |-> built.elements,
          count |-> Len(nodes),
          propertyCount |-> IF nodes = <<>> THEN 0
                            ELSE Len(built.elements[Len(nodes)].properties),
          duration |-> Or(duration, NumInt(defaultDuration)),
          easing |-> resolveEasing(easing),
          afterEach |-> resolveAfterEach(callback),
          afterAll |-> resolveAfterAll(callback),
          cancel |-> FALSE,
          startTime |-> Undefined]

AnimationFor(nodes, properties, duration, callback, easing, st) ==
    AnimationOf(nodes, buildElements(nodes, properties, st), duration, callback, easing)

\* new StyleAnimation.Animation(elements, properties, duration, callback,
\* easing) against the computed styles st
Animation(elements, properties, duration, callback, easing, st) ==
    AnimationFor(normalizeElements(elements), properties, duration, callback, easing, st)

(***************************************************************************)
(* Animation.prototype.animate                                             *)
(***************************************************************************)
\* this.easing(progress): calling what is not a function throws.  square is
\* the function the callers of the model pass.  The functions inherited
\* from Object.prototype are called on the animation: Object(x) wraps x in
\* a Number, which computes as x does; toString gives "[object Object]",
\* valueOf the animation itself, and the predicates false, no property of
\* the animation being named by a number; __defineGetter__ and
\* __defineSetter__ throw, their second argument being no function, and
\* __lookupGetter__ and __lookupSetter__ find no accessor and give
\* undefined.
callEasing(f, x) ==
    IF ~IsFunction(f) THEN TypeError
    ELSE CASE f.fn = "StyleAnimation.dynamics.linear" -> linear(x)
           [] f.fn = "StyleAnimation.dynamics.logarithmic" -> logarithmic(x)
           [] f.fn = "square" -> Rat(0, x.n * x.n, x.d * x.d)
           [] f.fn = "Object" -> x
           [] f.fn \in {"Object.prototype.toString", "Object.prototype.toLocaleString"} ->
                 Str(<<"[", "o", "b", "j", "e", "c", "t", " ",
                       "O", "b", "j", "e", "c", "t", "]">>)
           [] f.fn = "Object.prototype.valueOf" -> [object |-> "Animation"]
           [] f.fn \in {"Object.prototype.hasOwnProperty",
                        "Object.prototype.isPrototypeOf",
                        "Object.prototype.propertyIsEnumerable"} -> False
           [] f.fn \in {"Object.prototype.__defineGetter__",
                        "Object.prototype.__defineSetter__"} -> TypeError
           [] f.fn \in {"Object.prototype.__lookupGetter__",
                        "Object.prototype.__lookupSetter__"} -> Undefined

\* this.callback, which line 437 reads: the constructor of this revision
\* assigns afterEach and afterAll and never callback, so the property is
\* undefined unless the caller assigns it
this_callback(a) == Prop(a, "callback")

\* the k-th (element, property) pair of the two nested loops, k from 1
ElementIdx(a, k) == ((k - 1) \div a.propertyCount) + 1
PropertyIdx(a, k) == ((k - 1) % a.propertyCount) + 1
PairCount(a) == a.count * a.propertyCount

\* an assignment that replaces the whole inline style of the node, which
\* empties its other properties
assignStyle_wholeStyle(st, node, name, v) ==
    IF node.kind # "element" \/ v = TypeError THEN TypeError
    ELSE [st EXCEPT ![node.id] =
             [p \in DOMAIN st[node.id] |-> IF p = name THEN v ELSE Str(<<>>)]]

\* node.style[name] = v: the node of a binding is not an element when the
\* constructor wrapped a collection, and has no style to assign into.  A
\* TypeError for v stands for the evaluation that was to give it having
\* thrown.
assignStyle(st, node, name, v) ==
    IF node.kind # "element" \/ v = TypeError THEN TypeError
    ELSE [st EXCEPT ![node.id][name] = v]

\* an interpolation that starts from the value the previous frame wrote
interpolateProperty_fromWritten(st, node, property, easing, progress) ==
    assignStyle(st, node, property.name,
                numeric_set(property.start,
                            numeric_update(
                                IF /\ node.kind = "element" /\ property.start # Null
                                   /\ "value" \in DOMAIN st[node.id][property.name]
                                THEN [property.start EXCEPT
                                        !.value = st[node.id][property.name].value]
                                ELSE property.start,
                                property.target,
                                callEasing(easing, progress))))

\* lines 421-422 for one property of one element: the styles after it, or
\* TypeError
interpolateProperty(st, node, property, easing, progress) ==
    assignStyle(st, node, property.name,
                numeric_set(property.start,
                            numeric_update(property.start, property.target,
                                           callEasing(easing, progress))))

\* the sweep [style, threw] after a step that gave st2
swept(acc, st2) ==
    IF st2 = TypeError THEN [acc EXCEPT !.threw = TRUE]
    ELSE [acc EXCEPT !.style = st2]

\* lines 417-424 from the k-th pair on: the styles after the sweep, and
\* whether it threw (which ends the sweep and the frame)
RECURSIVE interpolateFrom(_, _, _, _)
interpolateFrom(a, acc, progress, k) ==
    IF k > PairCount(a) \/ acc.threw THEN acc
    ELSE interpolateFrom(a,
            swept(acc, interpolateProperty(acc.style,
                          a.elements[ElementIdx(a, k)].node,
                          a.elements[ElementIdx(a, k)].properties[PropertyIdx(a, k)],
                          a.easing, progress)),
            progress, k + 1)

\* lines 434-437 for one property of one element: this.cancel = true, the
\* set, which gave st2, and this.callback && this.callback()
committed(acc, st2, callback) ==
    IF st2 = TypeError THEN [acc EXCEPT !.cancel = TRUE, !.threw = TRUE]
    ELSE IF Truthy(callback) /\ ~IsFunction(callback)
         THEN [acc EXCEPT !.cancel = TRUE, !.style = st2, !.threw = TRUE]
    ELSE [acc EXCEPT !.cancel = TRUE, !.style = st2,
                     !.called = @ + (IF Truthy(callback) THEN 1 ELSE 0)]

commitProperty(st, node, property) ==
    assignStyle(st, node, property.name, numeric_set(property.start, property.target))

\* lines 431-439 from the k-th pair on: the styles after the sweep, whether
\* it threw, whether it set this.cancel, and how often it called
\* this.callback
RECURSIVE commitFrom(_, _, _)
commitFrom(a, acc, k) ==
    IF k > PairCount(a) \/ acc.threw THEN acc
    ELSE commitFrom(a,
            committed(acc,
                      commitProperty(acc.style,
                          a.elements[ElementIdx(a, k)].node,
                          a.elements[ElementIdx(a, k)].properties[PropertyIdx(a, k)]),
                      this_callback(a)),
            k + 1)

\* (now - this.startTime) / this.duration
progressAt(a, t) == RatDiv(RatSub(NumInt(t), a.startTime), a.duration)

\* the frame that took the branch progress < 1 and swept r: it requests
\* the next frame unless the sweep threw
interpolated(a, r) ==
    [branch |-> "interpolate", anim |-> a, style |-> r.style, threw |-> r.threw,
     request |-> ~r.threw, called |-> 0]

\* a completing frame that drops the snapshots of the animation
completed_dropping(a, r) ==
    [branch |-> "commit", anim |-> [a EXCEPT !.cancel = r.cancel, !.elements = <<>>],
     style |-> r.style, threw |-> r.threw, request |-> FALSE, called |-> r.called]

\* the frame that took the branch progress >= 1 and swept r
completed(a, r) ==
    [branch |-> "commit", anim |-> [a EXCEPT !.cancel = r.cancel], style |-> r.style,
     threw |-> r.threw, request |-> FALSE, called |-> r.called]

\* lines 416-440, progress being computed
animateAt(a, st, progress) ==
    IF RatLess(progress, NumInt(1))
    THEN interpolated(a, interpolateFrom(a, [style |-> st, threw |-> FALSE], progress, 1))
    ELSE completed(a, commitFrom(a, [style |-> st, threw |-> FALSE,
                                     cancel |-> FALSE, called |-> 0], 1))

\* animate() at clock reading t: the branch taken, the animation and the
\* styles it leaves, whether it threw, whether it requested a next frame
\* and how often it called this.callback
animate(a, st, t) ==
    IF a.cancel
    THEN [branch |-> "cancelled", anim |-> a, style |-> st, threw |-> FALSE,
          request |-> FALSE, called |-> 0]
    ELSE animateAt(a, st, progressAt(a, t))

(***************************************************************************)
(* The inputs of the model                                                 *)
(***************************************************************************)
\* the computed styles of the document when the animation is constructed
InitStyle ==
    [e1 |-> [width |-> Str(<<"1", "0", "0", "p", "x">>),
             left |-> Str(<<"a", "u", "t", "o">>),
             opacity |-> Str(<<"1">>)],
     e2 |-> [width |-> Str(<<"1", "2", ".", "5", "p", "x">>),
             left |-> Str(<<"-", "1", "0", "p", "x">>),
             opacity |-> Str(<<"0", ".", "5">>)]]

Nodes == DOMAIN InitStyle

\* the elements argument
ElementsArgs ==
    {Element("e1"),
     Array(<<>>), Array(<<Element("e1"), Element("e2")>>),
     NodeList(<<>>), NodeList(<<Element("e1"), Element("e2")>>)}

\* the property map argument, in enumeration order
PropertyMaps ==
    {<<>>,
     <<[name |-> "width", value |-> Str(<<"3", "0", "0", "p", "t">>)],
       [name |-> "opacity", value |-> Str(<<"0", ".", "5">>)]>>,
     <<[name |-> "width", value |-> Str(<<"3", "0", "0", "p", "x">>)],
       [name |-> "left", value |-> Str(<<"2", "0", "p", "x">>)]>>,
     <<[name |-> "left", value |-> Str(<<"a", "u", "t", "o">>)],
       [name |-> "width", value |-> Str(<<"3", "0", "0", "p", "x">>)]>>}

\* the duration argument
Durations == {Undefined, NumInt(0), NumInt(-32), NumInt(32)}

\* the callback argument: none, a function, an object of callbacks
Callbacks ==
    {Undefined, [fn |-> "done"],
     [afterEach |-> [fn |-> "each"], afterAll |-> [fn |-> "all"]]}

CallbackNames == {"done", "each", "all"}

\* the host's global object: one with neither mozRequestAnimationFrame nor
\* webkitRequestAnimationFrame, one with the first, one with the second
SetTimeoutWindow == [setTimeout |-> [fn |-> "setTimeout"]]

Windows ==
    {SetTimeoutWindow,
     [setTimeout |-> [fn |-> "setTimeout"],
      mozRequestAnimationFrame |-> [fn |-> "mozRequestAnimationFrame"]],
     [setTimeout |-> [fn |-> "setTimeout"],
      webkitRequestAnimationFrame |-> [fn |-> "webkitRequestAnimationFrame"]]}

\* the easing argument: none, a function, a registered name, a name that
\* is nowhere in the registry, two names the registry inherits
Easings ==
    {Undefined, [fn |-> "square"], [string |-> "logarithmic"],
     [string |-> "bounce"], [string |-> "constructor"],
     [string |-> "__lookupGetter__"]}

(***************************************************************************)
(* State                                                                   *)
(***************************************************************************)
VARIABLES
    style,    \* the style of each element: [Nodes -> [property -> string]]
    anim,     \* the Animation object, Undefined before it is constructed
    timers,   \* the pending frame callbacks, in the order of their
              \* requests: how each was requested, and when
    now,      \* the clock StyleAnimation.utime reads, in ms since the
              \* animation was constructed
    calls,    \* how often each callback function was invoked
    thrown,   \* where the last uncaught TypeError was raised, or "none"
    hist,     \* history: the arguments, the calls made, the last step
    peer,     \* a second Animation object living on the same document,
              \* Undefined when there is none
    probe,    \* a direct call of an accessor function and what it
              \* returned, Undefined when there is none
    window    \* the host's global object, as it is when the file loads

vars == <<style, anim, timers, now, calls, thrown, hist, peer, probe, window>>

\* every argument of the constructor, on the host that has setTimeout only;
\* the three hosts of Windows are told apart in SpecLive, SpecHost and
\* SpecPair
Init ==
    /\ style = InitStyle
    /\ anim = Undefined
    /\ timers = <<>>
    /\ now = 0
    /\ calls = [c \in CallbackNames |-> 0]
    /\ thrown = "none"
    /\ hist = [args |-> Undefined, starts |-> 0, stopped |-> FALSE,
               interpolated |-> 0, committed |-> 0, last |-> "none",
               frame |-> "none", burst |-> 0,
               early |-> FALSE]
    /\ peer = Undefined
    /\ probe = Undefined
    /\ window = SetTimeoutWindow

\* Animation.prototype.requestAnimationFrame: the function the file picks
\* when it loads (lines 392-408), which hands the callback to the host's
\* mozRequestAnimationFrame or webkitRequestAnimationFrame when it has
\* one, and otherwise does this.timer = setTimeout(callback, 16).  Nothing
\* reads this.timer.
requestAnimationFrame(w, pending, t) ==
    IF Truthy(Prop(w, "mozRequestAnimationFrame"))
    THEN Append(pending, [via |-> "mozRequestAnimationFrame", at |-> t])
    ELSE IF Truthy(Prop(w, "webkitRequestAnimationFrame"))
    THEN Append(pending, [via |-> "webkitRequestAnimationFrame", at |-> t])
    ELSE Append(pending, [via |-> "setTimeout", at |-> t])

\* the host runs a callback of setTimeout once the clock shows that its
\* delay, less the slack of the two clocks, has passed since the request,
\* and a callback of requestAnimationFrame at its next repaint, which may
\* come within the millisecond of the request
Due(request, t) ==
    IF request.via = "setTimeout"
    THEN request.at + FrameDelay - TimerSlack <= t
    ELSE request.at <= t

\* Animation.prototype.start
start(a, t) == [a EXCEPT !.cancel = FALSE, !.startTime = NumInt(t)]

\* a stop() that toggles the flag
stop_toggle(a) == [a EXCEPT !.cancel = ~a.cancel]

\* Animation.prototype.stop
stop(a) == [a EXCEPT !.cancel = TRUE]

\* the state after a constructor call that gave a, and after start() when
\* started
Constructed(a, started) ==
    /\ anim' = IF a = TypeError THEN Undefined
               ELSE IF started THEN start(a, now) ELSE a
    /\ thrown' = IF a = TypeError THEN "Animation" ELSE "none"
    /\ timers' = IF a # TypeError /\ started THEN requestAnimationFrame(window, timers, now)
                 ELSE timers
    /\ UNCHANGED <<style, now, calls, peer, probe, window>>

\* new StyleAnimation.Animation(...)
New(elements, properties, duration, callback, easing) ==
    /\ anim = Undefined
    /\ thrown = "none"
    /\ Constructed(Animation(elements, properties, duration, callback, easing, style), FALSE)
    /\ hist' = [hist EXCEPT
                 !.args = [elements |-> elements, properties |-> properties,
                           duration |-> duration, callback |-> callback,
                           easing |-> easing],
                 !.last = "new"]

\* StyleAnimation(elements, props, duration, callback, easing): constructs
\* and starts; a throwing constructor leaves nothing started
StyleAnimation(elements, properties, duration, callback, easing) ==
    /\ anim = Undefined
    /\ thrown = "none"
    /\ Constructed(Animation(elements, properties, duration, callback, easing, style), TRUE)
    /\ hist' = [hist EXCEPT
                 !.args = [elements |-> elements, properties |-> properties,
                           duration |-> duration, callback |-> callback,
                           easing |-> easing],
                 !.starts = IF anim' = Undefined THEN 0 ELSE 1,
                 !.last = "start"]

\* animation.start()
Start ==
    /\ anim # Undefined
    /\ hist.starts < MaxStarts
    /\ anim' = start(anim, now)
    /\ timers' = requestAnimationFrame(window, timers, now)
    /\ hist' = [hist EXCEPT !.starts = @ + 1, !.stopped = FALSE,
                            !.interpolated = 0, !.committed = 0,
                            !.last = "start", !.frame = "none"]
    /\ UNCHANGED <<style, now, calls, thrown, peer, probe, window>>

\* the animation is running and its duration has not elapsed: it was
\* started, it is not cancelled, no frame of it has observed progress >= 1
\* and the clock shows progress < 1
RunningEarly ==
    /\ hist.starts >= 1 /\ ~anim.cancel /\ hist.committed = 0
    /\ RatSign(anim.duration) > 0
    /\ RatLess(progressAt(anim, now), NumInt(1))

\* animation.stop(); hist.early records for good that a stop() came while
\* the animation was running and its duration had not elapsed
Stop ==
    /\ anim # Undefined
    /\ anim' = stop(anim)
    /\ hist' = [hist EXCEPT !.stopped = TRUE, !.last = "stop",
                            !.early = @ \/ RunningEarly]
    /\ UNCHANGED <<style, timers, now, calls, thrown, peer, probe, window>>

\* the callback the invocation counts as an invocation of
Invoked(f, n) ==
    IF n > 0 /\ IsFunction(f) /\ f.fn \in CallbackNames
    THEN [calls EXCEPT ![f.fn] = @ + n]
    ELSE calls

\* the count of the frames that ran at the present reading of the clock,
\* after one more; it is kept up to MaxBurst
Burst(n) == IF n < MaxBurst THEN n + 1 ELSE MaxBurst

\* the frame of this request is within the bound of the model: the
\* request was made at an earlier reading of the clock, or fewer than
\* MaxBurst frames ran at the present one
InBurst(request) == request.at < now \/ hist.burst < MaxBurst

\* the state after a frame in which animate() did r
Framed(r) ==
    /\ anim' = r.anim
    /\ style' = r.style
    /\ timers' = IF r.request THEN requestAnimationFrame(window, Tail(timers), now)
                 ELSE Tail(timers)
    /\ calls' = Invoked(this_callback(anim), r.called)
    /\ thrown' = IF r.threw THEN "animate" ELSE thrown
    /\ hist' = [hist EXCEPT
                 !.interpolated = @ + (IF r.branch = "interpolate" THEN 1 ELSE 0),
                 !.committed = @ + (IF r.branch = "commit" THEN 1 ELSE 0),
                 !.last = "frame",
                 !.frame = r.branch,
                 !.burst = Burst(@)]
    /\ UNCHANGED now

\* the oldest pending frame callback runs once it is due: that.animate()
Frame ==
    /\ timers # <<>>
    /\ Due(Head(timers), now)
    /\ InBurst(Head(timers))
    /\ Framed(animate(anim, style, now))
    /\ UNCHANGED <<peer, probe, window>>

\* the clock advances
Tick(d) ==
    /\ anim # Undefined
    /\ now + d <= MaxTime
    /\ now' = now + d
    /\ hist' = [hist EXCEPT !.burst = 0]
    /\ UNCHANGED <<style, anim, timers, calls, thrown, peer, probe, window>>

\* the first reading of the clock at which the host may run the callback
\* of a timeout
EarliestRun(request) == request.at + FrameDelay - TimerSlack

\* the clock advances to the first reading at which the oldest pending
\* timeout may run
TickToTimeout ==
    /\ timers # <<>>
    /\ Head(timers).via = "setTimeout"
    /\ now < EarliestRun(Head(timers))
    /\ Tick(EarliestRun(Head(timers)) - now)

Next ==
    \/ \E e \in ElementsArgs, p \in PropertyMaps, d \in Durations,
          c \in Callbacks, g \in Easings : New(e, p, d, c, g)
    \/ \E e \in ElementsArgs, p \in PropertyMaps, d \in Durations,
          c \in Callbacks, g \in Easings : StyleAnimation(e, p, d, c, g)
    \/ Start
    \/ Stop
    \/ Frame
    \/ \E d \in TickSteps : Tick(d)

Spec == Init /\ [][Next]_vars

\* A specification of the life of one constructed animation under fair
\* scheduling: the animation is one of those below, constructed at time 0
\* and started once;
\* the clock keeps advancing, up to the bound of the model, and a frame
\* callback that is due runs, as the host runs a timeout once its delay has
\* passed and a repaint callback at its next repaint.
LiveMaps ==
    {<<>>,
     <<[name |-> "width", value |-> Str(<<"3", "0", "0", "p", "t">>)],
       [name |-> "opacity", value |-> Str(<<"0", ".", "5">>)]>>,
     <<[name |-> "width", value |-> Str(<<"3", "0", "0", "p", "x">>)],
       [name |-> "left", value |-> Str(<<"2", "0", "p", "x">>)]>>}

LiveDurations == {NumInt(16), NumInt(32)}

LiveEasings == {Undefined, [fn |-> "square"], [string |-> "logarithmic"]}

InitLive ==
    /\ style = InitStyle
    /\ \E p \in LiveMaps, d \in LiveDurations, g \in LiveEasings :
          /\ anim = Animation(Element("e1"), p, d, Undefined, g, InitStyle)
          /\ hist = [args |-> [elements |-> Element("e1"), properties |-> p,
                               duration |-> d, callback |-> Undefined,
                               easing |-> g],
                     starts |-> 0, stopped |-> FALSE,
                     interpolated |-> 0, committed |-> 0, last |-> "new",
                     frame |-> "none", burst |-> 0,
               early |-> FALSE]
    /\ timers = <<>>
    /\ now = 0
    /\ calls = [c \in CallbackNames |-> 0]
    /\ thrown = "none"
    /\ peer = Undefined
    /\ probe = Undefined
    /\ window \in Windows

\* the first start() of the animation
StartOnce ==
    /\ hist.starts = 0
    /\ Start

NextLive ==
    \/ StartOnce
    \/ Stop
    \/ Frame
    \/ \E d \in RepaintSteps : Tick(d)
    \/ TickToTimeout

\* a frame callback is due: Frame is enabled, and every Frame step changes
\* timers or hist
FrameDue == timers # <<>> /\ Due(Head(timers), now) /\ InBurst(Head(timers))

\* weak fairness of the clock, and weak fairness of Frame with its
\* enabling condition written out
SpecLive ==
    /\ InitLive
    /\ [][NextLive]_vars
    /\ \A d \in RepaintSteps : WF_vars(Tick(d))
    /\ ([]<>(~FrameDue) \/ []<><<Frame>>_vars)

(***************************************************************************)
(* One animation on each host, on a clock that shows the repaints          *)
(***************************************************************************)
\* A specification of one animation constructed at time 0 on each of the
\* hosts of Windows, started and stopped at will; the clock advances in
\* steps of half the delay of the setTimeout fallback, so that a repaint
\* callback can run before a timeout would, and to the first reading at
\* which a pending timeout may run.
HostElements == {Element("e1"), NodeList(<<Element("e1"), Element("e2")>>)}

HostDurations == {Undefined, NumInt(-32), NumInt(32)}

InitHost ==
    /\ style = InitStyle
    /\ \E e \in HostElements, p \in LiveMaps, d \in HostDurations,
          c \in Callbacks, g \in LiveEasings :
          /\ anim = Animation(e, p, d, c, g, InitStyle)
          /\ hist = [args |-> [elements |-> e, properties |-> p,
                               duration |-> d, callback |-> c,
                               easing |-> g],
                     starts |-> 0, stopped |-> FALSE,
                     interpolated |-> 0, committed |-> 0, last |-> "new",
                     frame |-> "none", burst |-> 0,
               early |-> FALSE]
    /\ timers = <<>>
    /\ now = 0
    /\ calls = [c \in CallbackNames |-> 0]
    /\ thrown = "none"
    /\ peer = Undefined
    /\ probe = Undefined
    /\ window \in Windows

NextHost ==
    \/ Start
    \/ Stop
    \/ Frame
    \/ \E d \in RepaintSteps : Tick(d)
    \/ TickToTimeout

SpecHost == InitHost /\ [][NextHost]_vars

(***************************************************************************)
(* Two animations on one element                                           *)
(***************************************************************************)
\* A second specification: the animation anim and a second one, peer.anim,
\* animate the element e1, each with its own Animation object and its own
\* chain of timeouts.  Beside the document both write to, peer keeps the
\* styles of two documents in which only one of them runs: solo, where the
\* frames of anim alone are applied, and alone, where those of peer.anim
\* are; agree records that every frame so far took the same branch, left
\* the same Animation object and made the same request in both.

\* the property maps of the two animations
PairMaps ==
    {<<[name |-> "width", value |-> Str(<<"3", "0", "0", "p", "x">>)]>>,
     <<[name |-> "opacity", value |-> Str(<<"0", ".", "5">>)]>>,
     <<[name |-> "left", value |-> Str(<<"2", "0", "p", "x">>)]>>}

\* the duration of the second animation; that of the first is 32
PairDurations == {NumInt(32), NumInt(48)}

Names(properties) == {properties[k].name : k \in 1..Len(properties)}

InitPair ==
    /\ style = InitStyle
    /\ \E p \in PairMaps :
          /\ anim = Animation(Element("e1"), p, NumInt(32), Undefined, Undefined, InitStyle)
          /\ hist = [args |-> [elements |-> Element("e1"), properties |-> p,
                               duration |-> NumInt(32), callback |-> Undefined,
                               easing |-> Undefined],
                     starts |-> 0, stopped |-> FALSE,
                     interpolated |-> 0, committed |-> 0, last |-> "new",
                     frame |-> "none", burst |-> 0,
               early |-> FALSE]
    /\ timers = <<>>
    /\ now = 0
    /\ calls = [c \in CallbackNames |-> 0]
    /\ thrown = "none"
    /\ peer = [anim |-> Undefined, lone |-> Undefined, map |-> <<>>,
               timers |-> <<>>, starts |-> 0,
               solo |-> InitStyle, alone |-> InitStyle, agree |-> TRUE]
    /\ probe = Undefined
    /\ window \in Windows

\* what a frame leaves of the Animation object and of the timeouts
Outcome(r) == [branch |-> r.branch, anim |-> r.anim, request |-> r.request,
               threw |-> r.threw]

\* the record of the two documents after a frame of anim that did r in the
\* shared document and rSolo in the one where anim runs alone
FirstFramed(r, rSolo) ==
    peer' = [peer EXCEPT !.solo = rSolo.style,
                         !.agree = @ /\ Outcome(r) = Outcome(rSolo)]

\* a timeout of anim fires
FrameOfFirst ==
    /\ timers # <<>>
    /\ Due(Head(timers), now)
    /\ InBurst(Head(timers))
    /\ Framed(animate(anim, style, now))
    /\ FirstFramed(animate(anim, style, now), animate(anim, peer.solo, now))
    /\ UNCHANGED <<probe, window>>

\* the second animation is constructed, over the styles the document has
\* by then; lone is what it would have been constructed as alone
NewPeer(q, d) ==
    /\ peer.anim = Undefined
    /\ Names(q) \cap Names(hist.args.properties) = {}
    /\ peer' = [peer EXCEPT
                 !.anim = Animation(Element("e1"), q, d, Undefined, Undefined, style),
                 !.lone = Animation(Element("e1"), q, d, Undefined, Undefined, peer.alone),
                 !.map = q]
    /\ UNCHANGED <<style, anim, timers, now, calls, thrown, hist, probe, window>>

\* each of the two animations is started once
StartPeer ==
    /\ peer.anim # Undefined
    /\ peer.starts = 0
    /\ peer' = [peer EXCEPT !.anim = start(@, now),
                            !.timers = requestAnimationFrame(window, @, now),
                            !.starts = @ + 1]
    /\ UNCHANGED <<style, anim, timers, now, calls, thrown, hist, probe, window>>

StopPeer ==
    /\ peer.anim # Undefined
    /\ peer' = [peer EXCEPT !.anim = stop(@)]
    /\ UNCHANGED <<style, anim, timers, now, calls, thrown, hist, probe, window>>

\* the state after a frame of peer.anim that did r in the shared document
\* and rAlone in the one where it runs alone
PeerFramed(r, rAlone) ==
    /\ style' = r.style
    /\ peer' = [peer EXCEPT
                 !.anim = r.anim,
                 !.timers = IF r.request THEN requestAnimationFrame(window, Tail(@), now)
                            ELSE Tail(@),
                 !.alone = rAlone.style,
                 !.agree = @ /\ Outcome(r) = Outcome(rAlone)]
    /\ thrown' = IF r.threw THEN "animate" ELSE thrown
    /\ hist' = [hist EXCEPT !.burst = Burst(@)]
    /\ UNCHANGED <<anim, timers, now, calls, probe, window>>

\* a timeout of peer.anim fires
FrameOfPeer ==
    /\ peer.timers # <<>>
    /\ Due(Head(peer.timers), now)
    /\ InBurst(Head(peer.timers))
    /\ PeerFramed(animate(peer.anim, style, now), animate(peer.anim, peer.alone, now))

NextPair ==
    \/ StartOnce
    \/ Stop
    \/ FrameOfFirst
    \/ \E q \in PairMaps, d \in PairDurations : NewPeer(q, d)
    \/ StartPeer
    \/ StopPeer
    \/ FrameOfPeer
    \/ \E d \in RepaintSteps : Tick(d)

SpecPair == InitPair /\ [][NextPair]_vars

(***************************************************************************)
(* The numeric accessor called directly                                    *)
(***************************************************************************)
\* A third specification: accessors.numeric.get and .update are called on
\* inputs drawn from the pools below; probe holds the last call.  update is
\* called on the snapshots get parses, as the constructor calls it, and on
\* snapshots written out, as a caller of the accessor may.

\* style strings
RawStrings ==
    {Str(<<"1", "0", "0", "p", "x">>), Str(<<"-", "1", "0", "p", "x">>),
     Str(<<"1", "2", ".", "5", "p", "x">>), Str(<<"1", "0">>),
     Str(<<"a", "b", "c">>), Str(<<"3", "0", "0", "p", "t">>),
     Str(<<"0", ".", "5">>), Str(<<"+", "7", "e", "m">>),
     Str(<<"a", "u", "t", "o">>)}

\* values of progress: numbers, and values that * converts to a number
Progresses ==
    {NumInt(0), Rat(0, 1, 4), Rat(0, 1, 2), NumInt(1), Rat(0, 3, 2),
     Null, Undefined, Str(<<>>), Str(<<"0", ".", "5">>), Array(<<>>)}

InitNumeric ==
    /\ style = InitStyle
    /\ anim = Undefined
    /\ timers = <<>>
    /\ now = 0
    /\ calls = [c \in CallbackNames |-> 0]
    /\ thrown = "none"
    /\ hist = [args |-> Undefined, starts |-> 0, stopped |-> FALSE,
               interpolated |-> 0, committed |-> 0, last |-> "none",
               frame |-> "none", burst |-> 0,
               early |-> FALSE]
    /\ peer = Undefined
    /\ probe = [call |-> "none"]
    /\ window = SetTimeoutWindow

\* StyleAnimation.accessors.numeric.get(raw)
CallGet(raw) ==
    /\ probe' = [call |-> "get", raw |-> raw, returned |-> numeric_get(raw)]
    /\ UNCHANGED <<style, anim, timers, now, calls, thrown, hist, peer, window>>

\* the update of two snapshots that get gave
Updated(from, to, progress) ==
    [call |-> "update", start |-> from, target |-> to,
     progress |-> progress,
     returned |-> numeric_update(from, to, progress)]

\* StyleAnimation.accessors.numeric.update(start, target, progress) on
\* what get parsed from two strings
CallUpdate(rawStart, rawTarget, progress) ==
    /\ probe' = Updated(numeric_get(rawStart), numeric_get(rawTarget), progress)
    /\ UNCHANGED <<style, anim, timers, now, calls, thrown, hist, peer, window>>

\* snapshots with a negative value, a fraction and no unit, none of which
\* get returns; the values are integers and binary fractions, on which
\* the arithmetic of doubles is exact
DirectSnapshots ==
    {[value |-> NumInt(-10), unit |-> Str(<<"p", "x">>)],
     [value |-> Rat(0, 25, 2), unit |-> Str(<<"p", "x">>)],
     [value |-> Rat(0, 1, 2), unit |-> Null],
     [value |-> NumInt(300), unit |-> Str(<<"p", "t">>)]}

\* StyleAnimation.accessors.numeric.update(start, target, progress) on two
\* snapshots written out
CallUpdateOn(from, to, progress) ==
    /\ probe' = Updated(from, to, progress)
    /\ UNCHANGED <<style, anim, timers, now, calls, thrown, hist, peer, window>>

NextNumeric ==
    \/ \E raw \in RawStrings : CallGet(raw)
    \/ \E rs \in RawStrings, rt \in RawStrings, p \in Progresses :
          CallUpdate(rs, rt, p)
    \/ \E from \in DirectSnapshots, to \in DirectSnapshots, p \in Progresses :
          CallUpdateOn(from, to, p)

SpecNumeric == InitNumeric /\ [][NextNumeric]_vars

(***************************************************************************)
(* Vocabulary of the properties                                            *)
(***************************************************************************)
Args == hist.args
Built == anim # Undefined

\* the node and the snapshot of the k-th (element, property) pair
PairNode(a, k) == a.elements[ElementIdx(a, k)].node
PairProperty(a, k) == a.elements[ElementIdx(a, k)].properties[PropertyIdx(a, k)]

Parsed(property) == property.start # Null /\ property.target # Null
AllParsed(a) == \A k \in 1..PairCount(a) : Parsed(PairProperty(a, k))

\* the first pair, in the order of the sweep, whose start or target is null;
\* PairCount + 1 when there is none
FirstNullPair(a) ==
    IF AllParsed(a) THEN PairCount(a) + 1
    ELSE CHOOSE k \in 1..PairCount(a) :
            /\ ~Parsed(PairProperty(a, k))
            /\ \A m \in 1..(k - 1) : Parsed(PairProperty(a, m))

\* the value the caller gave for the property of the k-th pair
PairTarget(a, k) == Args.properties[PropertyIdx(a, k)].value

\* the signed decimal number a string of [.0-9+-] writes, NaN if none
DecimalOfParts(neg, ip, fp, hasDot) ==
    IF /\ AllDigits(ip) /\ AllDigits(fp)
       /\ Len(ip) + Len(fp) > 0
       /\ (hasDot \/ Len(ip) > 0)
    THEN Rat(0, (IF neg THEN -1 ELSE 1) * DigitsValue(ip \o fp), Pow10(Len(fp)))
    ELSE NaN

DecimalOfBody(neg, body, dot) ==
    DecimalOfParts(neg, SubSeq(body, 1, dot - 1), SubSeq(body, dot + 1, Len(body)),
                   dot <= Len(body))

SignedDecimal(s) ==
    IF Len(s) > 0 /\ s[1] \in {"+", "-"}
    THEN DecimalOfBody(s[1] = "-", SubSeq(s, 2, Len(s)), DotIdx(SubSeq(s, 2, Len(s))))
    ELSE DecimalOfBody(FALSE, s, DotIdx(s))

\* what a style reads when it is exactly the string raw: the number it
\* writes followed by its unit
AsGiven(raw, m) ==
    IF m = Null THEN raw
    ELSE [value |-> SignedDecimal(m.m1), unit |-> Or(m.m2, Str(<<>>))]

ExactTarget(raw) == AsGiven(raw, RegExec(raw.chars, MatchStart(raw.chars)))

\* the callback functions the caller supplied
AfterAllSupplied == Built /\ IsFunction(anim.afterAll) /\ anim.afterAll.fn \in CallbackNames
AfterEachSupplied == Built /\ IsFunction(anim.afterEach) /\ anim.afterEach.fn \in CallbackNames

(***************************************************************************)
(* C1: an animation over >= 1 elements and >= 1 properties that is started *)
(* once and never stopped invokes afterAll exactly once: once the first    *)
(* frame with progress >= 1 has run, never before it and never again.      *)
(* (Stated for animations all of whose snapshots parsed and whose easing   *)
(* is a function, so that no frame throws.)                                *)
(***************************************************************************)
C1_AfterAllExactlyOnce ==
    (/\ AfterAllSupplied
     /\ PairCount(anim) >= 1
     /\ AllParsed(anim) /\ IsFunction(anim.easing)
     /\ hist.starts = 1 /\ ~hist.stopped)
    => calls[anim.afterAll.fn] = (IF hist.committed >= 1 THEN 1 ELSE 0)

(***************************************************************************)
(* C2: when a frame observes progress >= 1 on a non-stopped animation, the *)
(* value written for every element and every property is exactly the       *)
(* target the caller supplied, number and unit as given in the property    *)
(* map, whatever the start value, the start unit, the easing and the       *)
(* overshoot of the clock.                                                 *)
(***************************************************************************)
\* an integer from 0 up, below 2^32: the numbers that >>> 0 leaves as they
\* are
IsUnsignedInteger(v) == IsRat(v) /\ v.w = 0 /\ v.d = 1 /\ v.n >= 0

\* the string writes such a number
WritesUnsignedInteger(raw) == IsUnsignedInteger(ExactTarget(raw).value)

\* computed at construction writes (nothing when that has no unit)
TargetWithStartUnit(a, k) ==
    [value |-> ExactTarget(PairTarget(a, k)).value,
     unit |-> ExactTarget(InitStyle[PairNode(a, k).id][PairProperty(a, k).name]).unit]

(***************************************************************************)
C3_StopFreezes ==
    [][(Built /\ hist.early)
       => /\ style' = style
          /\ calls' = calls
          /\ hist'.starts = hist.starts
             => (timers' = timers \/ (timers # <<>> /\ timers' = Tail(timers)))]_vars

(***************************************************************************)
(* C4: the easing of the animation is the function passed when the easing  *)
(* argument is a function, the registered function when it is a registered *)
(* name, and linear when it is absent or names no entry of the registry.   *)
(***************************************************************************)
\* the names the file registers in StyleAnimation.dynamics
RegisteredNames == {"linear", "logarithmic"}

ExpectedEasing(easing) ==
    IF IsFunction(easing) THEN easing
    ELSE IF easing = Undefined THEN dynamics("linear")
    ELSE IF easing.string \in RegisteredNames THEN dynamics(easing.string)
    ELSE dynamics("linear")

C4_EasingResolution == Built => anim.easing = ExpectedEasing(Args.easing)

(***************************************************************************)
(* C5: an animation constructed with a zero or negative duration has       *)
(* progress >= 1 at its very first frame: that frame commits the targets,  *)
(* and no frame interpolates.  (Stated for animations all of whose         *)
(* snapshots parsed and whose easing is a function.)                       *)
(***************************************************************************)
NotPositive(duration) == IsRat(duration) /\ RatSign(duration) <= 0

C5_InstantJump ==
    (/\ Built /\ NotPositive(Args.duration)
     /\ AllParsed(anim) /\ IsFunction(anim.easing)
     /\ hist.frame # "none" /\ ~hist.stopped)
    => (hist.interpolated = 0 /\ hist.committed >= 1)

(***************************************************************************)
(* C6: stop() on an animation that has completed or has been stopped       *)
(* changes no style, schedules no frame, fires no callback and leaves the  *)
(* animation as it was.                                                    *)
(***************************************************************************)
\* the animation was stopped, or a frame of it observed progress >= 1
Terminal == Built /\ (anim.cancel \/ hist.committed >= 1)

\* the claim as stated
C6_StopIsNoOp ==
    [][(Stop /\ Terminal)
       => /\ anim' = anim
          /\ style' = style /\ timers' = timers
          /\ calls' = calls /\ thrown' = thrown]_vars

\* C6 as amended: such a stop() changes no style, no timer and no callback
\* count, and changes the animation only by setting a cancel flag that was
\* still false, which is so only after the completion of an animation
\* with no property to commit
C6_StopOnlySetsFlag ==
    [][(Stop /\ Terminal)
       => /\ style' = style /\ timers' = timers
          /\ calls' = calls /\ thrown' = thrown
          /\ anim' = [anim EXCEPT !.cancel = TRUE]
          /\ (anim' # anim => PairCount(anim) = 0 /\ hist.committed >= 1)]_vars

\* stop() has just been called on an animation that had committed its
\* target
C6_Witness ==
    /\ Built /\ hist.last = "stop" /\ hist.committed >= 1
    /\ anim.cancel /\ timers = <<>>
    /\ AllParsed(anim) /\ PairCount(anim) >= 1
    /\ style["e1"]["width"] = [value |-> NumInt(300), unit |-> Str(<<"p", "x">>)]

(***************************************************************************)
(* C7: the animation holds one binding for a single element, and for a     *)
(* collection of n elements (native array or NodeList) n bindings, one per *)
(* element in the order of the collection, none being the collection.      *)
(***************************************************************************)
ExpectedNodes(elements) ==
    IF elements.kind = "element" THEN <<elements>> ELSE elements.items

C7_OneBindingPerElement ==
    (Args # Undefined /\ Len(ExpectedNodes(Args.elements)) >= 1)
    => /\ Built
       /\ Len(anim.elements) = Len(ExpectedNodes(Args.elements))
       /\ \A i \in 1..Len(anim.elements) :
             anim.elements[i].node = ExpectedNodes(Args.elements)[i]

(***************************************************************************)
(* C8: a supplied afterEach is invoked once per (element, property) pair   *)
(* in every frame with progress < 1: after F such frames of an animation   *)
(* with E elements and P properties it has been invoked F * E * P times.   *)
(* (Stated for animations all of whose snapshots parsed and whose easing   *)
(* is a function, started once.)                                           *)
(***************************************************************************)
C8_AfterEachCount ==
    (/\ AfterEachSupplied
     /\ AllParsed(anim) /\ IsFunction(anim.easing)
     /\ hist.starts = 1)
    => calls[anim.afterEach.fn] = hist.interpolated * PairCount(anim)

(***************************************************************************)
(* C9: a property whose start or target did not parse does not abort the   *)
(* animation: no frame throws, a started animation that is neither stopped *)
(* nor completed has a frame pending, and after the frame with             *)
(* progress >= 1 every parsed property is at its target.                   *)
(***************************************************************************)
\* what the commit of the k-th pair writes: the number numeric.get parsed
\* from the caller's target, followed by the unit numeric.get parsed from
\* the style computed at construction (nothing when that has no unit)
CommitValue(a, k) ==
    [value |-> numeric_get(PairTarget(a, k)).value,
     unit |-> Or(numeric_get(InitStyle[PairNode(a, k).id][PairProperty(a, k).name]).unit,
                 Str(<<>>))]

C9_NullSnapshotTolerated ==
    (/\ Built /\ ~AllParsed(anim) /\ IsFunction(anim.easing)
     /\ hist.starts = 1)
    => /\ thrown = "none"
       /\ (~anim.cancel /\ hist.committed = 0) => timers # <<>>
       /\ hist.frame = "commit"
          => \A k \in 1..PairCount(anim) :
                Parsed(PairProperty(anim, k))
                => style[PairNode(anim, k).id][PairProperty(anim, k).name]
                     = CommitValue(anim, k)

(***************************************************************************)
(* C10: an animation over zero elements is legal: the constructor raises   *)
(* no error and yields count = 0, its frames write no style, and afterAll  *)
(* still fires once progress reaches 1.                                    *)
(***************************************************************************)
NoElement(elements) == elements.kind # "element" /\ elements.items = <<>>

C10_ZeroElementsLegal ==
    (Args # Undefined /\ NoElement(Args.elements))
    => /\ Built /\ thrown = "none"
       /\ anim.count = 0
       /\ style = InitStyle
       /\ (AfterAllSupplied /\ hist.committed >= 1) => calls[anim.afterAll.fn] >= 1

(***************************************************************************)
(* C11: two animations on the same element with disjoint property maps do  *)
(* not interfere.  Under every interleaving of their frames, starts and    *)
(* stops, each property of the element reads what it reads in the document *)
(* where only the animation that names it runs (the initial style when     *)
(* neither names it), the second animation is constructed with the         *)
(* snapshots it has alone, and every frame takes the same branch, leaves   *)
(* the same Animation object and makes the same request as it does alone.  *)
(***************************************************************************)
C11_DisjointAnimationsIndependent ==
    peer # Undefined
    => /\ \A name \in DOMAIN style["e1"] :
             style["e1"][name] =
                IF name \in Names(Args.properties) THEN peer.solo["e1"][name]
                ELSE IF name \in Names(peer.map) THEN peer.alone["e1"][name]
                ELSE InitStyle["e1"][name]
       /\ style["e2"] = InitStyle["e2"]
       /\ peer.anim = Undefined \/ peer.anim.elements = peer.lone.elements
       /\ peer.agree

\* both animations have written: the first has committed its width, and the
\* second, constructed after the first had written, has interpolated its
\* opacity and been stopped
C11_Witness ==
    /\ peer # Undefined /\ peer.anim # Undefined
    /\ Names(Args.properties) = {"width"} /\ Names(peer.map) = {"opacity"}
    /\ hist.committed >= 1
    /\ style["e1"]["width"] = [value |-> NumInt(300), unit |-> Str(<<"p", "x">>)]
    /\ peer.anim.cancel /\ peer.starts >= 1
    /\ peer.anim.startTime # NumInt(0)
    /\ style["e1"]["opacity"] # InitStyle["e1"]["opacity"]

(***************************************************************************)
(* C12: for any valid numeric start and target, numeric.update returns     *)
(* exactly start at progress 0 and exactly target at progress 1.           *)
(***************************************************************************)
UpdateCalled ==
    /\ probe # Undefined /\ probe.call = "update"
    /\ probe.start # Null /\ probe.target # Null

\* the claim as stated
C12_UpdateReturnsEndpoints ==
    UpdateCalled
    => /\ probe.progress = NumInt(0) => probe.returned = probe.start
       /\ probe.progress = NumInt(1) => probe.returned = probe.target

\* C12 as amended: update returns exactly start at progress 0, and at
\* progress 1 the value of target with the unit of start, which is target
\* only when the two units are the same
C12_UpdateEndpoints ==
    UpdateCalled
    => /\ probe.progress = NumInt(0) => probe.returned = probe.start
       /\ probe.progress = NumInt(1)
          => /\ probe.returned.value = probe.target.value
             /\ probe.returned.unit = probe.start.unit
             /\ (probe.start.unit = probe.target.unit
                 => probe.returned = probe.target)

\* update was called at progress 1 on a start and a target of different
\* values and units, and returned neither
C12_Witness ==
    /\ UpdateCalled
    /\ probe.progress = NumInt(1)
    /\ probe.start = [value |-> NumInt(-10), unit |-> Str(<<"p", "x">>)]
    /\ probe.target = [value |-> NumInt(300), unit |-> Str(<<"p", "t">>)]
    /\ probe.returned = [value |-> NumInt(300), unit |-> Str(<<"p", "x">>)]

(***************************************************************************)
(* C13: numeric.get returns the signed number written at the head of the   *)
(* string, sign included, with its unit suffix or null, and null for a     *)
(* string with no numeric token: "-10px" gives -10 and "px", "10" gives 10 *)
(* and null, "abc" gives null.                                             *)
(***************************************************************************)
NumberAsWritten(m) ==
    IF m = Null THEN Null
    ELSE [value |-> SignedDecimal(m.m1), unit |-> Or(m.m2, Null)]

C13_GetParsesSignedNumber ==
    (probe # Undefined /\ probe.call = "get")
    => probe.returned =
          NumberAsWritten(RegExec(probe.raw.chars, MatchStart(probe.raw.chars)))

(***************************************************************************)
(* C14: for a positive duration, when the clock keeps advancing and every  *)
(* scheduled frame eventually runs, a started animation eventually reaches *)
(* a terminal state (completed by a frame with progress >= 1, or cancelled *)
(* by stop()) with no frame pending.  (Stated for the animations whose     *)
(* last frame is due before the clock of the model stops.)                 *)
(***************************************************************************)
\* started early enough for the duration to elapse, and for a timeout
\* requested just before it has elapsed to fire, within MaxTime
StartedInTime ==
    /\ Built /\ hist.starts >= 1
    /\ RatSign(anim.duration) > 0
    /\ ~RatLess(NumInt(MaxTime - FrameDelay), RatAdd(anim.startTime, anim.duration))

Finished == Built /\ (anim.cancel \/ hist.committed >= 1) /\ timers = <<>>

C14_Terminates == StartedInTime ~> Finished

(***************************************************************************)
(* C15: after any sequence of start(), stop() and frames, the animation    *)
(* has at most one scheduled frame callback pending.                       *)
(***************************************************************************)
C15_AtMostOnePending == Built => Len(timers) <= 1

(***************************************************************************)
(* C16: once the cancel flag of the animation is true it is true in every  *)
(* later state, whatever start(), stop() or frame follows.                 *)
(***************************************************************************)
C16_CancelIsTerminal == [][(Built /\ anim.cancel) => anim'.cancel]_vars

(***************************************************************************)
(* C17: startTime is assigned once, by the first start(): no later         *)
(* start(), stop() or frame overwrites it.                                 *)
(***************************************************************************)
C17_StartTimeAssignedOnce ==
    [][(Built /\ anim.startTime # Undefined)
       => anim'.startTime = anim.startTime]_vars

(***************************************************************************)
(* C18: with linear easing, every value a frame has written to a property  *)
(* (interpolated or committed) lies between the start value and the target *)
(* value of its snapshot, inclusive.                                       *)
(***************************************************************************)
Between(a, v, b) ==
    \/ ~RatLess(v, a) /\ ~RatLess(b, v)
    \/ ~RatLess(v, b) /\ ~RatLess(a, v)

\* the style of the k-th pair, when its node is an element
PairStyle(a, k) == style[PairNode(a, k).id][PairProperty(a, k).name]

\* the style is a value a frame wrote, not the one of the document
Written(v) == "value" \in DOMAIN v

C18_WithinStartAndTarget ==
    (Built /\ anim.easing = dynamics("linear"))
    => \A k \in 1..PairCount(anim) :
          (/\ PairNode(anim, k).kind = "element"
           /\ Parsed(PairProperty(anim, k))
           /\ Written(PairStyle(anim, k)))
          => Between(PairProperty(anim, k).start.value,
                     PairStyle(anim, k).value,
                     PairProperty(anim, k).target.value)

(***************************************************************************)
(* C19: the value a frame writes to a property depends only on the elapsed *)
(* time since start, the duration, the easing and the start and target of  *)
(* the snapshot, not on the frames that ran before it: every frame that    *)
(* runs at clock reading t writes the value computed below from the        *)
(* Animation object and t alone, to every pair it reaches.                 *)
(***************************************************************************)
ValueAt(property, easing, progress) ==
    IF RatLess(progress, NumInt(1))
    THEN numeric_set(property.start,
                     numeric_update(property.start, property.target,
                                    callEasing(easing, progress)))
    ELSE numeric_set(property.start, property.target)

\* the step is a frame of the running animation
FrameRan ==
    /\ Built /\ hist'.starts = hist.starts
    /\ hist'.interpolated + hist'.committed = hist.interpolated + hist.committed + 1

C19_FrameRateIndependent ==
    [][FrameRan
       => \A k \in 1..PairCount(anim) :
             (/\ PairNode(anim, k).kind = "element"
              /\ IsFunction(anim.easing)
              /\ k < FirstNullPair(anim))
             => style'[PairNode(anim, k).id][PairProperty(anim, k).name]
                  = ValueAt(PairProperty(anim, k), anim.easing, progressAt(anim, now))]_vars

\* on a host with webkitRequestAnimationFrame the second frame of a 32 ms
\* animation of width from 100px to 300 ran at a repaint 24 ms after the
\* start, sooner than two timeouts of 16 ms would have, and wrote
\* 100 + 200 * 24 / 32
C19_Witness ==
    /\ Built /\ hist.last = "frame" /\ hist.interpolated = 2 /\ hist.starts = 1
    /\ IsFunction(Prop(window, "webkitRequestAnimationFrame"))
    /\ anim.startTime = NumInt(0) /\ now = 24
    /\ anim.duration = NumInt(32)
    /\ AllParsed(anim) /\ PairCount(anim) >= 1
    /\ style["e1"]["width"] = [value |-> NumInt(250), unit |-> Str(<<"p", "x">>)]

(***************************************************************************)
(* C20: no frame, start() or stop() changes a snapshot (name, accessor,    *)
(* start, target) or any other field the constructor set; a frame changes  *)
(* only element styles, the cancel flag and the pending timer.             *)
(***************************************************************************)
C20_SnapshotsImmutable ==
    [][Built
       => /\ anim' = [anim EXCEPT !.cancel = anim'.cancel,
                                  !.startTime = anim'.startTime]
          /\ FrameRan => /\ anim'.startTime = anim.startTime
                         /\ calls' = calls /\ now' = now]_vars

\* an animation that was started, ran frames to completion and was
\* started again still holds the snapshots the constructor built
C20_Witness ==
    /\ Built /\ hist.starts = 2 /\ hist.committed >= 1
    /\ PairCount(anim) >= 2 /\ AllParsed(anim)
    /\ Written(style["e1"]["width"])
    /\ anim.elements = Animation(Args.elements, Args.properties, Args.duration,
                                 Args.callback, Args.easing, InitStyle).elements

=============================================================================
